---- MODULE Spec2Model ----
(***************************************************************************)
(* A model of pytektronix: the accepted-value validator and property       *)
(* dispatcher (pytektronix_base_classes.py), the command groups Trigger,   *)
(* Horizontal, Channel and WaveformTransfer (command_group_objects.py),    *)
(* the log of the LoggedVISA transport, and the tables, set_channel,       *)
(* set_trigger and compute_channel_offset_range of the MDO3024 and MSO54   *)
(* facades (scopes.py).                                                    *)
(*                                                                         *)
(* Python text (str and bytes) is a TLA+ string; a character is a string   *)
(* of length one.  A Python number is held in thousandths (field m), with  *)
(* its type (int or float) kept, so that 0.505 and 8 are both exact.       *)
(* Every method is one operator from the state it reads to the record of   *)
(* what the call did: the texts it transmitted, in order, the device       *)
(* store after them, the exception it raised (or "none") and the value it  *)
(* returned.  An action applies one method and records that call.          *)
(***************************************************************************)
EXTENDS Integers, Sequences, FiniteSets, TLC

VARIABLES
    facade,      \* which tables were built: "MDO3024", "MSO54", or "custom"
                 \* (groups constructed directly on a caller's tables)
    model,       \* instr.model, the identity the transport discovered
    strict,      \* the strict flag the groups were constructed with
    av,          \* the accepted-value tables, by table object
    dev,         \* the instrument: what each query path reports
    raw,         \* the block the instrument sends in reply to curve?
    data_ready,  \* WaveformTransfer.data_ready
    init_done,   \* history: an initialize_data() call has run to completion
    trig,        \* the Trigger object the session uses
    chan,        \* the Channel object the session uses
    call,        \* the last call made: what it was and what it did
    calls        \* the number of calls made (counted where a run is bounded)

vars ==
    <<facade, model, strict, av, dev, raw, data_ready, init_done, trig, chan,
      call, calls>>

-----------------------------------------------------------------------------
(* Text *)

UpperLetters == "ABCDEFGHIJKLMNOPQRSTUVWXYZ"
LowerLetters == "abcdefghijklmnopqrstuvwxyz"
DigitChars == "0123456789"

CharAt(s, i) == SubSeq(s, i, i)

\* the position of character c in s, 0 when it is not there
IndexIn(c, s) ==
    IF \E i \in 1..Len(s) : CharAt(s, i) = c
    THEN CHOOSE i \in 1..Len(s) :
            CharAt(s, i) = c /\ \A j \in 1..(i - 1) : CharAt(s, j) # c
    ELSE 0

LowerOf == [i \in 1..26 |-> CharAt(LowerLetters, i)]
UpperSet == {CharAt(UpperLetters, i) : i \in 1..26}

LowerChar(c) == IF c \in UpperSet THEN LowerOf[IndexIn(c, UpperLetters)] ELSE c

RECURSIVE lower(_)
lower(s) == IF s = "" THEN "" ELSE LowerChar(Head(s)) \o lower(Tail(s))

IsDigitChar(c) == IndexIn(c, DigitChars) > 0

\* s.translate(str.maketrans('', '', digits))
RECURSIVE remove_digits(_)
remove_digits(s) ==
    IF s = "" THEN ""
    ELSE IF IsDigitChar(Head(s)) THEN remove_digits(Tail(s))
    ELSE Head(s) \o remove_digits(Tail(s))

\* sub in s
Contains(s, sub) ==
    \E i \in 1..(Len(s) - Len(sub) + 1) : SubSeq(s, i, i + Len(sub) - 1) = sub

Whitespace == {" ", "\t", "\n", "\r", "\f"}

RECURSIVE lstrip(_)
lstrip(s) ==
    IF s = "" THEN ""
    ELSE IF Head(s) \in Whitespace THEN lstrip(Tail(s)) ELSE s

RECURSIVE rstrip(_)
rstrip(s) ==
    IF s = "" THEN ""
    ELSE IF CharAt(s, Len(s)) \in Whitespace
         THEN rstrip(SubSeq(s, 1, Len(s) - 1))
         ELSE s

strip(s) == rstrip(lstrip(s))

\* s.split(" ")[0] and the rest after the first space
BeforeSpace(s) ==
    IF IndexIn(" ", s) = 0 THEN s ELSE SubSeq(s, 1, IndexIn(" ", s) - 1)
AfterSpace(s) ==
    IF IndexIn(" ", s) = 0 THEN "" ELSE SubSeq(s, IndexIn(" ", s) + 1, Len(s))

-----------------------------------------------------------------------------
(* Python values *)

NoneV == [t |-> "none", m |-> 0, s |-> ""]
StrV(x) == [t |-> "str", m |-> 0, s |-> x]
BytesV(x) == [t |-> "bytes", m |-> 0, s |-> x]
IntV(n) == [t |-> "int", m |-> 1000 * n, s |-> ""]
\* a float, given in thousandths
FloatV(k) == [t |-> "float", m |-> k, s |-> ""]

IsNumber(v) == v.t \in {"int", "float"}

\* not value
Falsy(v) ==
    \/ v.t = "none"
    \/ v.t \in {"str", "bytes"} /\ v.s = ""
    \/ IsNumber(v) /\ v.m = 0

RECURSIVE NatStr(_)
NatStr(n) ==
    IF n < 10 THEN CharAt(DigitChars, n + 1)
    ELSE NatStr(n \div 10) \o CharAt(DigitChars, (n % 10) + 1)

\* the digits after the point of a float with k thousandths, k in 0..999
FracStr(k) ==
    IF k % 10 # 0 THEN NatStr(k \div 100) \o NatStr((k \div 10) % 10) \o NatStr(k % 10)
    ELSE IF k % 100 # 0 THEN NatStr(k \div 100) \o NatStr((k \div 10) % 10)
    ELSE NatStr(k \div 100)

Abs(n) == IF n < 0 THEN -n ELSE n

\* str(value), as the f-string of the write formats it
PyStr(v) ==
    CASE v.t = "none" -> "None"
      [] v.t \in {"str", "bytes"} -> v.s
      [] v.t = "int" -> (IF v.m < 0 THEN "-" ELSE "") \o NatStr(Abs(v.m) \div 1000)
      [] v.t = "float" ->
            (IF v.m < 0 THEN "-" ELSE "") \o NatStr(Abs(v.m) \div 1000)
                \o "." \o FracStr(Abs(v.m) % 1000)

-----------------------------------------------------------------------------
(* Accepted-value specs: a list of alternatives, each a string or a tuple *)

Tok(x) == [k |-> "str", s |-> x, lo |-> 0, hi |-> 0]
\* a tuple (lo, hi), its bounds in thousandths
Rng(a, b) == [k |-> "tuple", s |-> "", lo |-> a, hi |-> b]

RangeOf(f) == {f[i] : i \in DOMAIN f}

\* x in accepted_values, for a string x
InList(x, accepted) == \E i \in DOMAIN accepted : accepted[i].k = "str" /\ accepted[i].s = x

HasTuple(accepted) == \E i \in DOMAIN accepted : accepted[i].k = "tuple"

\* [x for x in accepted_values if isinstance(x, tuple)][0]
FirstTuple(accepted) ==
    accepted[CHOOSE i \in DOMAIN accepted :
                /\ accepted[i].k = "tuple"
                /\ \A j \in 1..(i - 1) : accepted[j].k # "tuple"]

Min2(a, b) == IF a <= b THEN a ELSE b
Max2(a, b) == IF a >= b THEN a ELSE b

-----------------------------------------------------------------------------
(* The transport and the instrument behind it *)

\* what a call has done so far, and the objects' state as it left them
\* (sent: the texts transmitted, in order; got: the replies to the queries
\* among them, in order; av: the tables; ready: WaveformTransfer.data_ready)
\* (printed: a diagnostic was printed on the console)
Start(d, a, r) ==
    [dev |-> d, av |-> a, ready |-> r, sent |-> <<>>, got |-> <<>>, exc |-> "none",
     ret |-> NoneV, printed |-> FALSE]
Raise(c, e) == [c EXCEPT !.exc = e]
Return(c, v) == [c EXCEPT !.ret = v]

\* the instrument keeps what a "<path> <value>" command sets and reports it
\* back to the query of that path
DeviceWrite(d, text) ==
    IF IndexIn(" ", text) = 0 THEN d
    ELSE (BeforeSpace(text) :> AfterSpace(text)) @@ d

DefaultReply == "1"

\* q = q + "?" if "?" not in q else q
AskText(q) == IF Contains(q, "?") THEN q ELSE q \o "?"

QueryPath(q) ==
    IF IndexIn("?", q) = 0 THEN q ELSE SubSeq(q, 1, IndexIn("?", q) - 1)

\* the reply to a query, stripped as ask() returns it
Reply(d, q) ==
    strip(IF QueryPath(q) \in DOMAIN d THEN d[QueryPath(q)] ELSE DefaultReply)

InstrWrite(c, text) ==
    [c EXCEPT !.sent = Append(@, text), !.dev = DeviceWrite(@, text)]

InstrAsk(c, q) ==
    [c EXCEPT !.sent = Append(@, AskText(q)), !.got = Append(@, Reply(c.dev, q))]

\* LoggedVISA.log(value), the transport finding no instrument error:
\* value += "\n" if "\n" not in value else value; log_str += value
log(log_str, value) ==
    log_str \o (value \o (IF ~Contains(value, "\n") THEN "\n" ELSE value))

\* log_str after the texts of `sent` were transmitted in order, ask() and
\* write() logging each text they transmit
RECURSIVE LogAll(_, _)
LogAll(log_str, sent) ==
    IF sent = <<>> THEN log_str
    ELSE LogAll(log(log_str, Head(sent)), Tail(sent))

-----------------------------------------------------------------------------
(* CommandGroupObject *)

supported_models == {"MSO54", "MDO3024", "DEBUG"}

\* _set_property_accepted_vals with the bounds of the interval left out
SetPropertyAcceptedVals_ExclusiveBounds(c, mdl, prop, accepted, value) ==
    IF mdl \notin supported_models THEN Raise(c, "NotImplementedError")
    ELSE IF Falsy(value)
    THEN InstrWrite(InstrWrite(c, prop), prop \o " " \o PyStr(value))
    ELSE IF /\ IsNumber(value)
            /\ ~InList("any_number", accepted)
            /\ HasTuple(accepted)
            /\ \/ value.m <= Min2(FirstTuple(accepted).lo, FirstTuple(accepted).hi)
               \/ value.m >= Max2(FirstTuple(accepted).lo, FirstTuple(accepted).hi)
    THEN Raise(c, "ValueError")
    ELSE IF value.t = "str" /\ ~InList(lower(value.s), accepted)
    THEN IF HasTuple(accepted) THEN Raise(c, "TypeError") ELSE Raise(c, "ValueError")
    ELSE InstrWrite(c, prop \o " " \o PyStr(value))

\* _set_property_accepted_vals(prop, models_accepted_values, value).
\* A falsy value (None, "", 0, 0.0) takes the first branch, which writes the
\* bare property, and then falls through to the final write as every branch
\* that does not raise does.  The message of the string branch joins the
\* alternatives with ','.join, which itself raises TypeError when one of them
\* is a tuple.
SetPropertyAcceptedVals(c, mdl, prop, accepted, value) ==
    IF mdl \notin supported_models THEN Raise(c, "NotImplementedError")
    ELSE IF Falsy(value)
    THEN InstrWrite(InstrWrite(c, prop), prop \o " " \o PyStr(value))
    ELSE IF /\ IsNumber(value)
            /\ ~InList("any_number", accepted)
            /\ HasTuple(accepted)
            /\ \/ value.m < Min2(FirstTuple(accepted).lo, FirstTuple(accepted).hi)
               \/ value.m > Max2(FirstTuple(accepted).lo, FirstTuple(accepted).hi)
    THEN Raise(c, "ValueError")
    ELSE IF value.t = "str" /\ ~InList(lower(value.s), accepted)
    THEN IF HasTuple(accepted) THEN Raise(c, "TypeError") ELSE Raise(c, "ValueError")
    ELSE InstrWrite(c, prop \o " " \o PyStr(value))

\* _global_setter(command_name, command, value) of the group whose
\* accepted_values is the table object tid
\* _global_setter without the test of the table's keys: a name the table does
\* not list is written as given
GlobalSetter_Unlisted(c, mdl, tid, command_name, command, value) ==
    IF command_name \notin DOMAIN c.av[tid]
    THEN InstrWrite(c, command \o " " \o PyStr(value))
    ELSE SetPropertyAcceptedVals(c, mdl, command, c.av[tid][command_name], value)

GlobalSetter(c, mdl, tid, command_name, command, value) ==
    IF command_name \notin DOMAIN c.av[tid] THEN Raise(c, "KeyError")
    ELSE SetPropertyAcceptedVals(c, mdl, command, c.av[tid][command_name], value)

-----------------------------------------------------------------------------
(* The accepted-value tables the facades build (scopes.py) *)

Toks(names) == [i \in DOMAIN names |-> Tok(names[i])]

num_anlg_chans == 4
num_digi_chans == 16

\* [f"{prefix}{i}" for i in range(first, first + n)]
Numbered(prefix, first, n) == [k \in 1..n |-> prefix \o NatStr(first + k - 1)]

\* [f"ch{j}_d{i}" for j in range(1, num_anlg_chans + 1) for i in range(num_digi_chans)]
ChannelDigitals ==
    [k \in 1..(num_anlg_chans * num_digi_chans) |->
        "ch" \o NatStr(((k - 1) \div num_digi_chans) + 1)
             \o "_d" \o NatStr((k - 1) % num_digi_chans)]

data_encodings ==
    <<"ascii", "fastest", "ribinary", "rpbinary", "sribinary", "srpbinary",
      "fpbinary", "sfpbinary">>

rf_sources ==
    <<"math", "rf_amplitude", "rf_frequency", "rf_phase", "rf_normal",
      "rf_average", "rf_maxhold", "rf_minhold">>

\* 2e6, in thousandths
TwoMillion == 2000000000
\* the largest magnitude the model holds; it stands for an upper bound that
\* is beyond it (500.0e12)
Huge == 2000000000

MDO3024_trigger ==
    [mode |-> Toks(<<"normal", "auto">>),
     trig_type |-> Toks(<<"edge", "logic", "pulse", "bus", "video">>),
     source |-> Toks(Numbered("ch", 1, 4) \o Numbered("d", 0, 16) \o <<"line", "rf">>),
     level |-> Toks(<<"ttl", "ecl", "any_number">>)]

\* (4e-10, 1000) and (1.0e-12, 500.0e12): a positive lower bound below one
\* thousandth is held as one thousandth, the least positive number of the
\* model, so that 0 lies below it as it does in the code
MDO3024_horizontal ==
    [scale |-> <<Rng(1, 1000000)>>,
     position |-> <<Rng(0, 100000)>>]

MDO3024_channel ==
    [position |-> <<Rng(-8000, 8000)>>,
     offset |-> Toks(<<"any_number">>),
     scale |-> <<Rng(1, Huge)>>,
     coupling |-> Toks(<<"ac", "dc", "dcreject">>),
     measurement_type |-> Toks(<<"amplitude", "area", "burst", "carea", "cmean",
        "crms", "delay", "fall", "frequency", "high", "hits", "low", "max", "mean",
        "median", "min", "nduty", "nedgecount", "novershoot", "npulsecount",
        "nwidth", "peakhits", "pedgecount", "pduty", "period", "phase", "pk2pk",
        "povershoot", "ppulsecount", "pwidth", "rise", "rms", "sigma1", "sigma2",
        "sigma3", "stdev", "tovershoot", "waveforms">>)]

MDO3024_waveform ==
    [data_source |-> Toks(Numbered("ch", 1, 4) \o Numbered("ref", 1, 4)
                            \o Numbered("d", 0, 16) \o rf_sources),
     data_encoding |-> Toks(data_encodings),
     data_start |-> <<Rng(1000, TwoMillion)>>,
     data_stop |-> <<Rng(1000, TwoMillion)>>,
     num_points |-> <<Rng(1000, TwoMillion)>>]

MSO54_triggerA ==
    [mode |-> Toks(<<"normal", "auto">>),
     trig_type |-> Toks(<<"edge", "logic", "width", "timeout", "runt", "window",
                          "sethold", "transition", "bus">>),
     source |-> Toks(Numbered("ch", 1, num_anlg_chans) \o ChannelDigitals
                        \o <<"line", "aux">>),
     level |-> Toks(<<"ttl", "ecl", "any_number">>)]

MSO54_triggerB == MDO3024_trigger

MSO54_channel ==
    [position |-> Toks(<<"any_number">>),
     offset |-> Toks(<<"any_number">>),
     scale |-> Toks(<<"any_number">>),
     coupling |-> Toks(<<"ac", "dc", "dcreject">>)]

MSO54_waveform ==
    [data_source |-> Toks(Numbered("ch", 1, num_anlg_chans) \o Numbered("ref", 1, 4)
                            \o ChannelDigitals \o rf_sources
                            \o [i \in 1..num_anlg_chans |-> "ch" \o NatStr(i) \o "_dall"]
                            \o <<"digitalall">>),
     data_encoding |-> Toks(data_encodings),
     data_start |-> <<Rng(1000, TwoMillion)>>,
     data_stop |-> <<Rng(1000, TwoMillion)>>,
     num_points |-> <<Rng(1000, TwoMillion)>>]

\* the tables the tests construct a Channel and a WaveformTransfer on
custom_channel ==
    [position |-> <<Rng(-8000, 8000)>>,
     offset |-> Toks(<<"any_number">>),
     scale |-> <<Rng(1, Huge)>>,
     coupling |-> Toks(<<"ac", "dc", "dcreject">>)]

\* a caller's waveform table: data_source, and data_stop as the two
\* intervals (1, 10) and (100, 200); it gives no other property
custom_waveform ==
    [data_source |-> Toks(Numbered("ch", 1, 4)),
     data_stop |-> <<Rng(1000, 10000), Rng(100000, 200000)>>]

\* the table objects a facade creates; every Channel of a facade is handed
\* the one anlg_chan_accepted_values object
Tables(f) ==
    IF f = "custom"
    THEN [trigger |-> MDO3024_trigger, triggerB |-> MDO3024_trigger,
          horizontal |-> MDO3024_horizontal, channel |-> custom_channel,
          waveform |-> custom_waveform]
    ELSE IF f = "MSO54"
    THEN [trigger |-> MSO54_triggerA, triggerB |-> MSO54_triggerB,
          horizontal |-> MDO3024_horizontal, channel |-> MSO54_channel,
          waveform |-> MSO54_waveform]
    ELSE [trigger |-> MDO3024_trigger, triggerB |-> MDO3024_trigger,
          horizontal |-> MDO3024_horizontal, channel |-> MDO3024_channel,
          waveform |-> MDO3024_waveform]

-----------------------------------------------------------------------------
(* MultiValueEnum: each member a list of values, the first the canonical one *)

TrigStrings ==
    << <<"ready", "rea">>, <<"save", "sav">>, <<"triggered", "trig">>,
       <<"armed", "arm">>, <<"edge", "edg">>, <<"logic", "logi">>,
       <<"pulse", "puls">>, <<"bus">>, <<"video", "vid">>,
       <<"normal", "norm">>, <<"auto">> >>

WFStrings ==
    << <<"ascii", "asc">>, <<"fastest">>, <<"ribinary", "rib">>,
       <<"rpbinary", "rpb">>, <<"sribinary", "sri">>, <<"srpbinary", "srp">>,
       <<"fpbinary", "fpb">>, <<"sfpbinary", "sfp">> >>

EnumHas(enum, x) == \E i \in DOMAIN enum : x \in RangeOf(enum[i])

\* Enum(x).value
EnumValue(enum, x) == enum[CHOOSE i \in DOMAIN enum : x \in RangeOf(enum[i])][1]

\* Enum(instr.ask(q).lower()).value; the lookup raises ValueError for a text
\* that is no value of the enumeration
AskEnum(c, enum, q) ==
    IF EnumHas(enum, lower(Reply(c.dev, q)))
    THEN Return(InstrAsk(c, q), StrV(EnumValue(enum, lower(Reply(c.dev, q)))))
    ELSE Raise(InstrAsk(c, q), "ValueError")

-----------------------------------------------------------------------------
(* Trigger (a Trigger object is its command prefix cn and its table object tid) *)

\* the state property
Trigger_state(c) == AskEnum(c, TrigStrings, "trigger:state")

\* force() without the test of the state
Trigger_force_Unchecked(c, strct) ==
    LET st == Trigger_state(c) IN
    IF st.exc # "none" THEN st
    ELSE Return(InstrWrite(st, "trigger force"), NoneV)

\* force() comparing the lower-cased reply itself, not the member's value
Trigger_force_NoAbbreviation(c, strct) ==
    LET st == Trigger_state(c) IN
    IF st.exc # "none" THEN st
    ELSE IF lower(st.got[Len(st.got)]) # "ready"
    THEN IF strct THEN Raise(Return(st, NoneV), "ScopeStateError")
                  ELSE Raise(Return(st, NoneV), "NameError")
    ELSE Return(InstrWrite(st, "trigger force"), NoneV)

\* force(): the non-strict branch formats its message from the name `check`,
\* which nothing defines, so the f-string raises NameError before print runs
Trigger_force(c, strct) ==
    LET st == Trigger_state(c) IN
    IF st.exc # "none" THEN st
    ELSE IF st.ret.s # "ready"
    THEN IF strct THEN Raise(Return(st, NoneV), "ScopeStateError")
                  ELSE Raise(Return(st, NoneV), "NameError")
    ELSE Return(InstrWrite(st, "trigger force"), NoneV)

Trigger_autoset(c, cn) == InstrWrite(c, cn \o " setlevel")

Trigger_mode(c, cn) == AskEnum(c, TrigStrings, cn \o ":mode")

Trigger_set_mode(c, mdl, tid, cn, value) ==
    GlobalSetter(c, mdl, tid, "mode", cn \o ":mode", value)

Trigger_trig_type(c, cn) == AskEnum(c, TrigStrings, cn \o ":type")

Trigger_set_trig_type(c, mdl, tid, cn, value) ==
    GlobalSetter(c, mdl, tid, "trig_type", cn \o ":type", value)

\* the source getter reads trig_type twice: once for the path, once for the
\* test `self.trig_type not in "edge"`, a substring test
Trigger_source(c, cn) ==
    LET t1 == Trigger_trig_type(c, cn) IN
    IF t1.exc # "none" THEN t1
    ELSE LET t2 == Trigger_trig_type(t1, cn) IN
         IF t2.exc # "none" THEN t2
         ELSE IF ~Contains("edge", t2.ret.s)
         THEN Raise(Return(t2, NoneV), "NotImplementedError")
         ELSE Return(InstrAsk(t2, cn \o ":" \o t1.ret.s \o ":source"),
                     StrV(lower(Reply(t2.dev, cn \o ":" \o t1.ret.s \o ":source"))))

Trigger_set_source(c, mdl, tid, cn, value) ==
    LET t == Trigger_trig_type(c, cn) IN
    IF t.exc # "none" THEN t
    ELSE IF t.ret.s # "edge"
    THEN Raise(Return(t, NoneV), "NotImplementedError")
    ELSE GlobalSetter(Return(t, NoneV), mdl, tid, "source",
                      cn \o ":" \o t.ret.s \o ":source", value)

-----------------------------------------------------------------------------
(* float(text) and int(text), for the decimal texts the model's instrument
   reports: an optional sign, digits, and at most three digits after a point *)

IsNatText(s) == s # "" /\ \A i \in 1..Len(s) : IsDigitChar(CharAt(s, i))

RECURSIVE NatVal(_)
NatVal(s) ==
    IF s = "" THEN 0
    ELSE 10 * NatVal(SubSeq(s, 1, Len(s) - 1)) + (IndexIn(CharAt(s, Len(s)), DigitChars) - 1)

Unsigned(s) == IF s # "" /\ Head(s) \in {"-", "+"} THEN Tail(s) ELSE s
IntPart(s) == IF IndexIn(".", s) = 0 THEN s ELSE SubSeq(s, 1, IndexIn(".", s) - 1)
FracPart(s) == IF IndexIn(".", s) = 0 THEN "" ELSE SubSeq(s, IndexIn(".", s) + 1, Len(s))

FloatOK(s) ==
    LET u == Unsigned(s) IN
    /\ IntPart(u) = "" \/ IsNatText(IntPart(u))
    /\ FracPart(u) = "" \/ (IsNatText(FracPart(u)) /\ Len(FracPart(u)) <= 3)
    /\ IntPart(u) # "" \/ FracPart(u) # ""

Thousandths(f) ==
    CASE Len(f) = 0 -> 0
      [] Len(f) = 1 -> 100 * NatVal(f)
      [] Len(f) = 2 -> 10 * NatVal(f)
      [] OTHER -> NatVal(f)

\* a magnitude of two million or more is held as Huge
FloatVal(s) ==
    LET u == Unsigned(s)
        mag == IF Len(IntPart(u)) > 7 \/ NatVal(IntPart(u)) >= 2000000 THEN Huge
               ELSE 1000 * NatVal(IntPart(u)) + Thousandths(FracPart(u))
    IN FloatV(IF s # "" /\ Head(s) = "-" THEN -mag ELSE mag)

\* float(s) == 10e6, for a text float() reads
IsTenMegohm(s) ==
    /\ IntPart(s) = "10000000"
    /\ \A i \in 1..Len(FracPart(s)) : CharAt(FracPart(s), i) = "0"

\* float(instr.ask(q))
AskFloat(c, q) ==
    IF FloatOK(Reply(c.dev, q))
    THEN Return(InstrAsk(c, q), FloatVal(Reply(c.dev, q)))
    ELSE Raise(InstrAsk(c, q), "ValueError")

IntOK(s) == IsNatText(Unsigned(s))

\* int(instr.ask(q))
AskInt(c, q) ==
    IF IntOK(Reply(c.dev, q))
    THEN Return(InstrAsk(c, q),
                IntV(IF Head(Reply(c.dev, q)) = "-" THEN -NatVal(Unsigned(Reply(c.dev, q)))
                     ELSE NatVal(Unsigned(Reply(c.dev, q)))))
    ELSE Raise(InstrAsk(c, q), "ValueError")

\* instr.ask(q)
AskStr(c, q) == Return(InstrAsk(c, q), StrV(Reply(c.dev, q)))

-----------------------------------------------------------------------------
(* Trigger.level *)

NotAscertained ==
    "Trigger level cannot be ascertained for sources other that CH<i>, D<i>, or AUX"

\* the source prefixes the level getter recognises, by model
level_get_sources ==
    [MDO3024 |-> {"aux", "ch", "d"}, MSO54 |-> {"aux", "ch", "d"}, DEBUG |-> {"ch"}]

\* the source prefixes the level setter recognises, by model
level_set_sources ==
    [MDO3024 |-> {"aux", "ch", "d"}, MSO54 |-> {"aux", "ch", "ch_d"}, DEBUG |-> {"ch"}]

\* the level getter without the test of the source's prefix
Trigger_level_AnySource(c, mdl, cn) ==
    LET src == Trigger_source(c, cn) IN
    IF src.exc # "none" THEN src
    ELSE IF mdl \notin DOMAIN level_get_sources
    THEN Raise(Return(src, NoneV), "KeyError")
    ELSE AskFloat(Return(src, NoneV), cn \o ":level:" \o src.ret.s)

Trigger_level(c, mdl, cn) ==
    LET src == Trigger_source(c, cn) IN
    IF src.exc # "none" THEN src
    ELSE IF mdl \notin DOMAIN level_get_sources
    THEN Raise(Return(src, NoneV), "KeyError")
    ELSE IF remove_digits(src.ret.s) \notin level_get_sources[mdl]
    THEN Return(src, StrV(NotAscertained))
    ELSE AskFloat(Return(src, NoneV), cn \o ":level:" \o src.ret.s)

\* the setter's return value is the assignment's, which Python drops
Trigger_set_level(c, mdl, tid, cn, value) ==
    LET src == Trigger_source(c, cn) IN
    IF src.exc # "none" THEN src
    ELSE IF mdl \notin DOMAIN level_set_sources
    THEN Raise(Return(src, NoneV), "KeyError")
    ELSE IF remove_digits(src.ret.s) \notin level_set_sources[mdl]
    THEN Return(src, NoneV)
    ELSE GlobalSetter(Return(src, NoneV), mdl, tid, "level",
                      cn \o ":level:" \o src.ret.s, value)

-----------------------------------------------------------------------------
(* Horizontal *)

Horizontal_get(c, prop) ==
    IF prop = "sample_rate" THEN AskStr(c, "horizontal:samplerate")
    ELSE AskFloat(c, "horizontal:" \o prop)

\* the scale and position setters
Horizontal_set(c, mdl, prop, value) ==
    GlobalSetter(c, mdl, "horizontal", prop, "horizontal:" \o prop, value)

-----------------------------------------------------------------------------
(* Channel (a Channel object is its command prefix cn and is_digital) *)

\* `raise ScopeNotSupportedError(...)`: command_group_objects.py imports
\* ScopeStateError and LoggedVXI11 from the base classes and not
\* ScopeNotSupportedError, so evaluating the name raises NameError
DigitalGuard(c) == Raise(c, "NameError")

\* the position, offset, scale and coupling getters
Channel_get(c, ch, prop) ==
    IF ch.is_digital THEN DigitalGuard(c)
    ELSE IF prop = "coupling" THEN AskStr(c, ch.cn \o ":coupling")
    ELSE AskFloat(c, ch.cn \o ":" \o prop)

\* the position, offset, scale and coupling setters
Channel_set(c, mdl, ch, prop, value) ==
    IF ch.is_digital THEN DigitalGuard(c)
    ELSE GlobalSetter(c, mdl, "channel", prop, ch.cn \o ":" \o prop, value)

Channel_probe_resistance(c, ch) ==
    IF ch.is_digital THEN DigitalGuard(c)
    ELSE AskFloat(c, ch.cn \o ":probe:resistance")

-----------------------------------------------------------------------------
(* The facades MDO3024 and MSO54: set_channel *)

\* the keys of ch_dict
ch_dict_keys(f) ==
    RangeOf(Numbered("ch", 1, num_anlg_chans))
        \cup (IF f = "MSO54"
              THEN {"ch_" \o NatStr(i) \o "_d" \o NatStr(j) :
                        i \in 1..num_anlg_chans, j \in 0..(num_digi_chans - 1)}
              ELSE RangeOf(Numbered("d", 0, num_digi_chans)))

\* a Channel object, as a value: no text, so no key of ch_dict
ChannelObject(ch) == [t |-> "Channel", m |-> 0, s |-> ch.cn]

\* compute_channel_offset_range(channel): self.ch_dict[channel] raises
\* KeyError for a key ch_dict does not hold.  For a key it holds, ch being
\* its Channel, the probe resistance is read and looked up in {10e6: 0,
\* 50: 1}, and then `vdiv = self.scale` raises AttributeError, the facades
\* having no attribute scale; the table of ranges after it is never reached.
compute_channel_offset_range(c, f, key, ch) ==
    IF key \notin {StrV(k) : k \in ch_dict_keys(f)} THEN Raise(c, "KeyError")
    ELSE LET pr == Channel_probe_resistance(c, ch) IN
         IF pr.exc # "none" THEN pr
         ELSE IF pr.ret.m # 50000 /\ ~IsTenMegohm(pr.got[Len(pr.got)])
         THEN Raise(Return(pr, NoneV), "KeyError")
         ELSE Raise(Return(pr, NoneV), "AttributeError")

\* the offset step of set_channel: the range is computed, with the Channel
\* object itself as the key, stored as the table's offset entry, and the
\* offset set
set_channel_offset(c, f, mdl, ch, offset) ==
    LET r == compute_channel_offset_range(c, f, ChannelObject(ch), ch) IN
    IF r.exc # "none" THEN r
    ELSE Channel_set(
            [Return(r, NoneV) EXCEPT !.av["channel"]["offset"] = <<r.ret>>],
            mdl, ch, "offset", offset)

\* one step of set_channel: the property prop is set when its argument is
\* not None and no earlier step raised
set_channel_step(c, f, mdl, ch, prop, value) ==
    IF c.exc # "none" \/ value = NoneV THEN c
    ELSE IF prop = "offset" THEN set_channel_offset(c, f, mdl, ch, value)
    ELSE Channel_set(c, mdl, ch, prop, value)

\* set_channel(channel, position, offset, scale, coupling), ch being
\* ch_dict[channel] where there is one.  For a channel ch_dict does not hold,
\* `self.strict` raises AttributeError: __init__ takes strict and never
\* assigns it to the facade.
set_channel(c, f, mdl, channel, ch, args) ==
    IF channel \notin ch_dict_keys(f) THEN Raise(c, "AttributeError")
    ELSE set_channel_step(
            set_channel_step(
               set_channel_step(
                  set_channel_step(c, f, mdl, ch, "position", args.position),
                  f, mdl, ch, "offset", args.offset),
               f, mdl, ch, "scale", args.scale),
            f, mdl, ch, "coupling", args.coupling)

-----------------------------------------------------------------------------
(* The facades MDO3024 and MSO54: set_trigger *)

\* one step of set_trigger on self.trigger (prefix trigger:a): mode,
\* trig_type and source are set when truthy (`if mode:`), level when not
\* None, and no step runs after one that raised
set_trigger_step(c, mdl, prop, value) ==
    IF c.exc # "none" THEN c
    ELSE IF prop = "level"
    THEN IF value = NoneV THEN c
         ELSE Trigger_set_level(c, mdl, "trigger", "trigger:a", value)
    ELSE IF Falsy(value) THEN c
    ELSE IF prop = "mode" THEN Trigger_set_mode(c, mdl, "trigger", "trigger:a", value)
    ELSE IF prop = "trig_type"
    THEN Trigger_set_trig_type(c, mdl, "trigger", "trigger:a", value)
    ELSE Trigger_set_source(c, mdl, "trigger", "trigger:a", value)

\* set_trigger with the source set before the type
set_trigger_SourceFirst(c, mdl, args) ==
    set_trigger_step(
       set_trigger_step(
          set_trigger_step(
             set_trigger_step(c, mdl, "mode", args.mode),
             mdl, "source", args.source),
          mdl, "trig_type", args.trig_type),
       mdl, "level", args.level)

\* set_trigger(mode, trig_type, source, level)
set_trigger(c, mdl, args) ==
    set_trigger_step(
       set_trigger_step(
          set_trigger_step(
             set_trigger_step(c, mdl, "mode", args.mode),
             mdl, "trig_type", args.trig_type),
          mdl, "source", args.source),
       mdl, "level", args.level)

-----------------------------------------------------------------------------
(* WaveformTransfer *)

WaveformTransfer_data_source(c) == AskStr(c, "data:source")

WaveformTransfer_set_data_source(c, mdl, value) ==
    GlobalSetter(c, mdl, "waveform", "data_source", "data:source", value)

WaveformTransfer_data_encoding(c) == AskEnum(c, WFStrings, "data:encdg")

WaveformTransfer_set_data_encoding(c, mdl, value) ==
    GlobalSetter(c, mdl, "waveform", "data_encoding", "data:encdg", value)

WaveformTransfer_data_width(c) == AskInt(c, "data:width")

\* the widths the setter stores for the source the instrument reports
WidthsFor(data_source) ==
    IF data_source = "digital" THEN Toks(<<"4", "8">>)
    ELSE IF data_source \in {"rf_normal", "rf_average", "rf_maxhold", "rf_minhold"}
    THEN Toks(<<"4">>)
    ELSE Toks(<<"1", "2">>)

\* the data_width setter keeping the "data_width" entry the table already has
WaveformTransfer_set_data_width_Stale(c, mdl, value) ==
    LET ds == WaveformTransfer_data_source(c)
        c1 == [Return(ds, NoneV) EXCEPT
                 !.av = [@ EXCEPT !.waveform =
                            @ @@ ("data_width" :> WidthsFor(ds.ret.s))]]
    IN GlobalSetter(c1, mdl, "waveform", "data_width", "data:width", StrV(PyStr(value)))

\* the data_width setter: reads data_source, overwrites the table's
\* "data_width" entry, and sets str(value) through the dispatcher
WaveformTransfer_set_data_width(c, mdl, value) ==
    LET ds == WaveformTransfer_data_source(c)
        c1 == [Return(ds, NoneV) EXCEPT
                 !.av = [@ EXCEPT !.waveform =
                            ("data_width" :> WidthsFor(ds.ret.s)) @@ @]]
    IN GlobalSetter(c1, mdl, "waveform", "data_width", "data:width", StrV(PyStr(value)))

\* the data_start and data_stop setters
WaveformTransfer_set_data_point(c, mdl, prop, value) ==
    GlobalSetter(c, mdl, "waveform", prop,
                 IF prop = "data_start" THEN "data:start" ELSE "data:stop", value)

\* initialize_data() with data_ready set before the setters run
WaveformTransfer_initialize_data_ReadyFirst(c, mdl) ==
    LET c0 == [c EXCEPT !.ready = TRUE]
        c1 == WaveformTransfer_set_data_source(c0, mdl, StrV("CH1")) IN
    IF c1.exc # "none" THEN c1
    ELSE LET c2 == WaveformTransfer_set_data_encoding(c1, mdl, StrV("fastest")) IN
         IF c2.exc # "none" THEN c2
         ELSE WaveformTransfer_set_data_width(c2, mdl, IntV(1))

\* initialize_data(): the three setters in turn, then data_ready = True; an
\* exception in one of them leaves the rest undone
WaveformTransfer_initialize_data(c, mdl) ==
    LET c1 == WaveformTransfer_set_data_source(c, mdl, StrV("CH1")) IN
    IF c1.exc # "none" THEN c1
    ELSE LET c2 == WaveformTransfer_set_data_encoding(c1, mdl, StrV("fastest")) IN
         IF c2.exc # "none" THEN c2
         ELSE LET c3 == WaveformTransfer_set_data_width(c2, mdl, IntV(1)) IN
              IF c3.exc # "none" THEN c3
              ELSE [c3 EXCEPT !.ready = TRUE]

WaveformTransfer_get_data_preamble(c) ==
    IF ~c.ready THEN Raise(c, "ScopeStateError")
    ELSE AskStr(c, "wfmoutpre")

\* data[k:], for bytes
SliceFrom(data, k) == IF k >= Len(data) THEN "" ELSE SubSeq(data, k + 1, Len(data))

\* LoggedVISA.read_raw(): the block the instrument sends, stripped
read_raw(block) == strip(block)

\* the test `('binary' or 'fastest') in de`: the operand of `in` is the value
\* of ('binary' or 'fastest'), which is 'binary'
DecodingApplies(de) == Contains(de, "binary")

\* data[2 + int(chr(data[1])):] (IndexError for a block of fewer than two
\* bytes, ValueError when byte 1 is no digit)
StripHeader(c, data) ==
    IF Len(data) < 2 THEN Raise(c, "IndexError")
    ELSE IF ~IsDigitChar(CharAt(data, 2)) THEN Raise(c, "ValueError")
    ELSE Return(c, BytesV(SliceFrom(data, 2 + NatVal(CharAt(data, 2)))))

\* get_data() over a LoggedVISA transport; block is what the instrument
\* sends in reply to curve?
WaveformTransfer_get_data(c, block) ==
    IF ~c.ready THEN Raise(c, "ScopeStateError")
    ELSE LET de == WaveformTransfer_data_encoding(c) IN
         IF de.exc # "none" THEN de
         ELSE LET c1 == InstrWrite(Return(de, NoneV), "curve?") IN
              IF DecodingApplies(lower(de.ret.s))
              THEN StripHeader(c1, read_raw(block))
              ELSE Return(c1, BytesV(read_raw(block)))

-----------------------------------------------------------------------------
(* The objects of a session *)

\* the channels of ch_dict the model follows: analog ch1..ch<MaxAnalog> and
\* digital d0..d<MaxDigital - 1>
MaxAnalog == 2
MaxDigital == 1

\* Channel(i, instr, table, is_digital, cn=...) sets cn = f"{cn}{i}"; the
\* MDO3024 leaves cn at "ch" for its digital channels too
Channels(f) ==
    {[name |-> "ch" \o NatStr(i), cn |-> "ch" \o NatStr(i), is_digital |-> FALSE] :
        i \in 1..MaxAnalog}
    \cup
    {IF f = "MSO54"
     THEN [name |-> "ch_1_d" \o NatStr(j), cn |-> "ch1_d" \o NatStr(j), is_digital |-> TRUE]
     ELSE [name |-> "d" \o NatStr(j), cn |-> "ch" \o NatStr(j), is_digital |-> TRUE] :
        j \in 0..(MaxDigital - 1)}

\* trigger (trigger:a) and, on the MSO54, triggerB (trigger:b)
Triggers(f) ==
    {[cn |-> "trigger:a", tid |-> "trigger"]}
    \cup (IF f = "MSO54" THEN {[cn |-> "trigger:b", tid |-> "triggerB"]} ELSE {})

\* the identities a session may discover
Models(f) ==
    IF f = "MSO54" THEN {"MSO54"}
    ELSE IF f = "MDO3024" THEN {"MDO3024"}
    ELSE {"DEBUG", "Unsupported Model"}

\* the instrument after its default setup
DefaultDevice ==
    ("trigger:state" :> "ARMED") @@ ("trigger:a:mode" :> "AUTO")
    @@ ("trigger:a:type" :> "EDGE") @@ ("trigger:a:edge:source" :> "CH1")
    @@ ("trigger:b:mode" :> "AUTO") @@ ("trigger:b:type" :> "EDGE")
    @@ ("trigger:b:edge:source" :> "CH1")
    @@ ("data:source" :> "CH1") @@ ("data:encdg" :> "RIBINARY")
    @@ ("data:width" :> "1")

NoCall ==
    [op |-> "none", obj |-> "", name |-> "", path |-> "", arg |-> NoneV,
     block |-> "", sent |-> <<>>, got |-> <<>>, exc |-> "none",
     ret |-> NoneV, printed |-> FALSE]

\* a scope is constructed; the run is of a trigger made with a strictness of
\* `stricts`, one of the triggers `tids` and one of the channels `analog`,
\* `digital`
Begin(stricts, tids, analog, digital) ==
    /\ facade \in {"MDO3024", "MSO54", "custom"}
    /\ model \in Models(facade)
    /\ strict \in stricts
    /\ av = Tables(facade)
    /\ trig \in {T \in Triggers(facade) : T.tid \in tids}
    /\ chan \in {ch \in Channels(facade) :
                    IF ch.is_digital THEN digital ELSE ch.name \in analog}
    /\ dev = DefaultDevice
    /\ raw = ""
    /\ data_ready = FALSE
    /\ init_done = FALSE
    /\ call = NoCall
    /\ calls = 0

AnalogNames == {ch.name : ch \in {c \in Channels("MDO3024") : ~c.is_digital}}

Init == Begin(BOOLEAN, {"trigger", "triggerB"}, AnalogNames, TRUE)

\* the number of calls of a run of the dispatcher alone
MaxDispatchCalls == 1

\* the call `op` on object `obj` (for a setter: of the table entry `name`,
\* with command path `path` and value `arg`) has run and left r
Record(op, obj, name, path, arg, r) ==
    /\ call' = [op |-> op, obj |-> obj, name |-> name, path |-> path, arg |-> arg,
                block |-> raw, sent |-> r.sent, got |-> r.got, exc |-> r.exc,
                ret |-> r.ret, printed |-> r.printed]
    /\ dev' = r.dev
    /\ av' = r.av
    /\ data_ready' = r.ready
    /\ calls' = IF calls < MaxDispatchCalls THEN calls + 1 ELSE calls
    /\ UNCHANGED <<facade, model, strict, raw, trig, chan>>

Here == Start(dev, av, data_ready)

-----------------------------------------------------------------------------
(* The values the calls are made with *)

ModeValues ==
    {NoneV, StrV(""), StrV("auto"), StrV("AUTO"), StrV("Normal"),
     StrV("Nonexistant Mode"), IntV(5)}

TypeValues == {StrV("edge"), StrV("Logic"), StrV("width"), StrV("Nonexistant Type")}

SourceValues ==
    {StrV("ch2"), StrV("d7"), StrV("line"), StrV("ch1_d3"), StrV("NonExistantChannel")}

LevelValues == {FloatV(500), StrV("Unsupported")}

HorizontalValues ==
    {IntV(0), FloatV(0), IntV(50), IntV(100), IntV(101), IntV(-1), FloatV(100001),
     StrV("abc")}

\* the values a channel property is set to
ChannelValues(prop) ==
    CASE prop = "position" ->
            {IntV(-8), IntV(8), IntV(-9), IntV(9), FloatV(8001), FloatV(-8001), IntV(0),
             StrV("bogus")}
      [] prop = "offset" -> {FloatV(100), StrV("any_number"), StrV("bogus")}
      [] prop = "scale" -> {IntV(2), StrV("bogus")}
      [] prop = "coupling" -> {StrV("dc"), StrV("DC"), StrV("AcDc"), StrV("")}

DataSourceValues ==
    {StrV("ch1"), StrV("ch2"), StrV("rf_normal"), StrV("d0"), StrV("digitalall"),
     StrV("bogus")}

DataEncodingValues == {StrV("ascii"), StrV("fastest"), StrV("RIBinary"), StrV("bogus")}

DataWidthValues == {IntV(1), IntV(4), IntV(8), IntV(3)}

DataPointValues ==
    {IntV(0), IntV(1), FloatV(999), IntV(150), IntV(2000000), IntV(2000001),
     StrV("start")}

-----------------------------------------------------------------------------
(* Trigger calls *)

Force ==
    /\ Record("force", trig.cn, "", "", NoneV, Trigger_force(Here, strict))
    /\ UNCHANGED init_done

Autoset ==
    /\ Record("autoset", trig.cn, "", "", NoneV, Trigger_autoset(Here, trig.cn))
    /\ UNCHANGED init_done

GetState ==
    /\ Record("state", trig.cn, "", "", NoneV, Trigger_state(Here))
    /\ UNCHANGED init_done

GetMode ==
    /\ Record("mode", trig.cn, "", "", NoneV, Trigger_mode(Here, trig.cn))
    /\ UNCHANGED init_done

SetMode ==
    /\ \E v \in ModeValues :
          Record("set", trig.tid, "mode", trig.cn \o ":mode", v,
                 Trigger_set_mode(Here, model, trig.tid, trig.cn, v))
    /\ UNCHANGED init_done

GetTrigType ==
    /\ Record("trig_type", trig.cn, "", "", NoneV, Trigger_trig_type(Here, trig.cn))
    /\ UNCHANGED init_done

SetTrigType ==
    /\ \E v \in TypeValues :
          Record("set", trig.tid, "trig_type", trig.cn \o ":type", v,
                 Trigger_set_trig_type(Here, model, trig.tid, trig.cn, v))
    /\ UNCHANGED init_done

GetSource ==
    /\ Record("source", trig.cn, "", "", NoneV, Trigger_source(Here, trig.cn))
    /\ UNCHANGED init_done

SetSource ==
    /\ \E v \in SourceValues :
          Record("set_source", trig.cn, "source", "", v,
                 Trigger_set_source(Here, model, trig.tid, trig.cn, v))
    /\ UNCHANGED init_done

GetLevel ==
    /\ Record("level", trig.cn, "", "", NoneV, Trigger_level(Here, model, trig.cn))
    /\ UNCHANGED init_done

SetLevel ==
    /\ \E v \in LevelValues :
          Record("set_level", trig.cn, "level", "", v,
                 Trigger_set_level(Here, model, trig.tid, trig.cn, v))
    /\ UNCHANGED init_done

\* the spellings of a trigger state the instrument reports
DeviceStates == {"READY", "REA", "ARMED", "TRIGGERED", "AUTO"}

\* the instrument's trigger state moves on its own
TriggerStateChange ==
    /\ \E st \in DeviceStates \ {dev["trigger:state"]} :
          dev' = [dev EXCEPT !["trigger:state"] = st]
    /\ UNCHANGED <<facade, model, strict, av, raw, data_ready, init_done, trig, chan, call, calls>>

\* the arguments set_trigger is called with
TriggerArgs ==
    [mode : {NoneV, StrV(""), StrV("auto")},
     trig_type : {NoneV, StrV("edge"), StrV("logic")},
     source : {NoneV, StrV("ch2"), StrV("NonExistantChannel")},
     level : {NoneV, FloatV(500)}]

\* set_trigger of a facade
SetTrigger ==
    /\ facade # "custom"
    /\ \E args \in TriggerArgs :
          Record("set_trigger", "trigger", "", "trigger:a", args,
                 set_trigger(Here, model, args))
    /\ UNCHANGED init_done

-----------------------------------------------------------------------------
(* Calls on the transport itself: the facade's write and ask are the
   transport's *)

WriteTexts == {"HEADER 0", "fpanel:press defaultsetup", "*CLS\n"}

Write ==
    /\ \E command \in WriteTexts :
          Record("write", "instr", "", "", StrV(command), InstrWrite(Here, command))
    /\ UNCHANGED init_done

AskTexts == {"*IDN?", "*ESR", "*OPC?\n"}

Ask ==
    /\ \E q \in AskTexts :
          Record("ask", "instr", "", "", StrV(q), AskStr(Here, q))
    /\ UNCHANGED init_done

-----------------------------------------------------------------------------
(* Horizontal and Channel calls *)

HorizontalGet ==
    /\ \E prop \in {"scale", "position", "sample_rate"} :
          Record("get", "horizontal", prop, "", NoneV, Horizontal_get(Here, prop))
    /\ UNCHANGED init_done

HorizontalSet ==
    /\ \E prop \in {"scale", "position"}, v \in HorizontalValues :
          Record("set", "horizontal", prop, "horizontal:" \o prop, v,
                 Horizontal_set(Here, model, prop, v))
    /\ UNCHANGED init_done

ChannelProps == {"position", "offset", "scale", "coupling"}

ChannelGet ==
    /\ \E prop \in ChannelProps :
          Record(IF chan.is_digital THEN "digital_get" ELSE "get", "channel", prop,
                 chan.cn \o ":" \o prop, NoneV, Channel_get(Here, chan, prop))
    /\ UNCHANGED init_done

ChannelSet ==
    /\ \E prop \in ChannelProps : \E v \in ChannelValues(prop) :
          Record(IF chan.is_digital THEN "digital_set" ELSE "set", "channel", prop,
                 chan.cn \o ":" \o prop, v, Channel_set(Here, model, chan, prop, v))
    /\ UNCHANGED init_done

\* the arguments of a set_channel call that gives prop alone
OnlyArg(prop, v) ==
    [position |-> IF prop = "position" THEN v ELSE NoneV,
     offset |-> IF prop = "offset" THEN v ELSE NoneV,
     scale |-> IF prop = "scale" THEN v ELSE NoneV,
     coupling |-> IF prop = "coupling" THEN v ELSE NoneV]

\* a name that is no key of ch_dict
NoChannel == "ch9"

\* set_channel of a facade, on the channel of the session or on no channel
SetChannel ==
    /\ facade # "custom"
    /\ \E key \in {chan.name, NoChannel} : \E prop \in ChannelProps :
          \E v \in ChannelValues(prop) :
             Record("set_channel", "channel", prop,
                    (IF key = chan.name THEN chan.cn ELSE key) \o ":" \o prop, v,
                    set_channel(Here, facade, model, key, chan, OnlyArg(prop, v)))
    /\ UNCHANGED init_done

\* the table object a Channel of ch_dict holds as its accepted values: the
\* facade hands every Channel, analog or digital, its one
\* anlg_chan_accepted_values
table_of(ch) == "channel"

\* the ranges a caller stores as a channel's offset entry
OffsetRanges == {<<Rng(-5000, 5000)>>, <<Rng(-100000, 100000)>>}

\* channel.accepted_values["offset"] = [range]: the entry is stored in the
\* table object the Channel holds
OverwriteOffsetRange ==
    /\ \E r \in OffsetRanges \ {av[table_of(chan)]["offset"]} :
          /\ av' = [av EXCEPT ![table_of(chan)]["offset"] = r]
          /\ call' = [NoCall EXCEPT !.op = "overwrite", !.obj = "channel",
                                     !.name = "offset", !.path = chan.cn]
    /\ UNCHANGED <<facade, model, strict, dev, raw, data_ready, init_done, trig, chan, calls>>

\* the scales of the buckets of compute_channel_offset_range: 0.02, 0.3, 2
\* and 8 V/div
ScaleValues == {FloatV(20), FloatV(300), IntV(2), IntV(8)}

\* channel.scale = v
SetScale ==
    /\ \E v \in ScaleValues :
          Record(IF chan.is_digital THEN "digital_set" ELSE "set", "channel", "scale",
                 chan.cn \o ":scale", v, Channel_set(Here, model, chan, "scale", v))
    /\ UNCHANGED init_done

\* the probe resistances the instrument reports: 50 ohm and 10 Mohm
ProbeResistances == {"50", "10000000.0"}

\* a probe is attached to the channel
ProbeChange ==
    /\ ~chan.is_digital
    /\ \E x \in ProbeResistances :
          /\ Reply(dev, chan.cn \o ":probe:resistance") # x
          /\ dev' = ((chan.cn \o ":probe:resistance") :> x) @@ dev
    /\ UNCHANGED <<facade, model, strict, av, raw, data_ready, init_done, trig, chan, call, calls>>

\* compute_channel_offset_range of a facade, given the name of the channel
\* of the session or the Channel itself
ComputeChannelOffsetRange ==
    /\ facade # "custom"
    /\ \E key \in {StrV(chan.name), ChannelObject(chan)} :
          Record("compute_channel_offset_range", "channel", "offset", chan.cn, key,
                 compute_channel_offset_range(Here, facade, key, chan))
    /\ UNCHANGED init_done

-----------------------------------------------------------------------------
(* WaveformTransfer calls *)

GetDataSource ==
    /\ Record("get", "waveform", "data_source", "", NoneV, WaveformTransfer_data_source(Here))
    /\ UNCHANGED init_done

SetDataSource ==
    /\ \E v \in DataSourceValues :
          Record("set", "waveform", "data_source", "data:source", v,
                 WaveformTransfer_set_data_source(Here, model, v))
    /\ UNCHANGED init_done

GetDataEncoding ==
    /\ Record("get", "waveform", "data_encoding", "", NoneV,
              WaveformTransfer_data_encoding(Here))
    /\ UNCHANGED init_done

SetDataEncoding ==
    /\ \E v \in DataEncodingValues :
          Record("set", "waveform", "data_encoding", "data:encdg", v,
                 WaveformTransfer_set_data_encoding(Here, model, v))
    /\ UNCHANGED init_done

GetDataWidth ==
    /\ Record("get", "waveform", "data_width", "", NoneV, WaveformTransfer_data_width(Here))
    /\ UNCHANGED init_done

SetDataWidth ==
    /\ \E v \in DataWidthValues :
          Record("set_data_width", "waveform", "data_width", "data:width", v,
                 WaveformTransfer_set_data_width(Here, model, v))
    /\ UNCHANGED init_done

SetDataPoint ==
    /\ \E prop \in {"data_start", "data_stop"}, v \in DataPointValues :
          Record("set", "waveform", prop,
                 IF prop = "data_start" THEN "data:start" ELSE "data:stop", v,
                 WaveformTransfer_set_data_point(Here, model, prop, v))
    /\ UNCHANGED init_done

\* the three writes of initialize_data, accepted in that order
InitWrites == <<"data:source CH1", "data:encdg fastest", "data:width 1">>

\* the texts of sent that are writes of InitWrites, in the order sent
RECURSIVE InitWritesIn(_)
InitWritesIn(sent) ==
    IF sent = <<>> THEN <<>>
    ELSE IF Head(sent) \in RangeOf(InitWrites)
         THEN <<Head(sent)>> \o InitWritesIn(Tail(sent))
         ELSE InitWritesIn(Tail(sent))

InitializeData ==
    LET r == WaveformTransfer_initialize_data(Here, model) IN
    /\ Record("initialize_data", "waveform", "", "", NoneV, r)
    /\ init_done' = (init_done \/ (r.exc = "none" /\ InitWritesIn(r.sent) = InitWrites))

GetDataPreamble ==
    /\ Record("get_data_preamble", "waveform", "", "", NoneV,
              WaveformTransfer_get_data_preamble(Here))
    /\ UNCHANGED init_done

GetData ==
    /\ Record("get_data", "waveform", "", "", NoneV, WaveformTransfer_get_data(Here, raw))
    /\ UNCHANGED init_done

\* a block '#' N <N digits of length> <payload>, and what follows it
Block(payload, terminator) ==
    "#" \o NatStr(Len(NatStr(Len(payload)))) \o NatStr(Len(payload))
        \o payload \o terminator

Payloads == {"HELLOWORLD", "AB", "A ", "A\n"}
Terminators == {"", "\n"}

\* a short read: the header declares `declared` bytes and fewer follow
ShortBlock(payload, declared) ==
    "#" \o NatStr(Len(NatStr(declared))) \o NatStr(declared) \o payload

\* the blocks the transport may hand over: whole ones and a short read
Blocks ==
    {Block(p, t) : p \in Payloads, t \in Terminators}
        \cup {ShortBlock("HELLO", Len("HELLOWORLD"))}

\* the instrument acquires a waveform: the block it will send
Acquire ==
    /\ \E b \in Blocks \ {raw} : raw' = b
    /\ UNCHANGED <<facade, model, strict, av, dev, data_ready, init_done, trig, chan, call, calls>>

\* the instrument's own report of its encoding and source changes (the front
\* panel, or the instrument resolving the setting it was given)
DeviceEncodings == {"ASCII", "RPB", "FASTEST"}

EncodingChange ==
    /\ \E e \in DeviceEncodings \ {dev["data:encdg"]} :
          dev' = [dev EXCEPT !["data:encdg"] = e]
    /\ UNCHANGED <<facade, model, strict, av, raw, data_ready, init_done, trig, chan, call, calls>>

\* the sources the instrument comes to report without a set of data_source
DeviceSources == {"digital", "CH1"}

SourceChange ==
    /\ \E x \in DeviceSources \ {dev["data:source"]} :
          dev' = [dev EXCEPT !["data:source"] = x]
    /\ UNCHANGED <<facade, model, strict, av, raw, data_ready, init_done, trig, chan, call, calls>>

-----------------------------------------------------------------------------
(* Specifications.  Spec is the whole session.  The runs of the other
   specifications keep to the calls of one group, on one choice of the
   objects the group does not use. *)

\* the dispatcher alone: the setters that only call _global_setter
NextDispatch ==
    \/ calls < MaxDispatchCalls /\ SetMode
    \/ calls < MaxDispatchCalls /\ SetTrigType
    \/ calls < MaxDispatchCalls /\ HorizontalSet
    \/ calls < MaxDispatchCalls /\ ChannelSet
    \/ calls < MaxDispatchCalls /\ SetDataSource
    \/ calls < MaxDispatchCalls /\ SetDataEncoding
    \/ calls < MaxDispatchCalls /\ SetDataPoint

InitDispatch == Begin({TRUE}, {"trigger"}, {"ch1"}, FALSE)

SpecDispatch == InitDispatch /\ [][NextDispatch]_vars

\* force, autoset, the state and the mode of a trigger
NextTrigger ==
    \/ Force \/ Autoset \/ GetState \/ TriggerStateChange \/ GetMode \/ SetMode

InitTrigger == Begin(BOOLEAN, {"trigger", "triggerB"}, {"ch1"}, FALSE)

SpecTrigger == InitTrigger /\ [][NextTrigger]_vars

\* the chained properties of a trigger: trig_type, source, level
NextChain ==
    \/ GetTrigType \/ SetTrigType \/ GetSource \/ SetSource \/ GetLevel \/ SetLevel

InitChain == Begin({TRUE}, {"trigger", "triggerB"}, {"ch1"}, FALSE)

SpecChain == InitChain /\ [][NextChain]_vars

NextChannel == ChannelGet \/ ChannelSet

InitChannel == Begin({TRUE}, {"trigger"}, AnalogNames, TRUE)

SpecChannel == InitChannel /\ [][NextChannel]_vars

\* a channel through its properties and through the facade's set_channel
NextFacade == ChannelGet \/ ChannelSet \/ SetChannel

InitFacade == Begin({TRUE}, {"trigger"}, {"ch1"}, TRUE)

SpecFacade == InitFacade /\ [][NextFacade]_vars

\* initialisation and capture of a waveform
NextWaveform ==
    \/ InitializeData \/ GetDataPreamble \/ GetData \/ Acquire \/ EncodingChange
    \/ GetDataEncoding \/ SetDataEncoding

SpecWaveform == InitDispatch /\ [][NextWaveform]_vars

\* the source and the width of a transfer
NextWidth ==
    \/ GetDataSource \/ SetDataSource \/ SourceChange
    \/ GetDataWidth \/ SetDataWidth

SpecWidth == InitDispatch /\ [][NextWidth]_vars

\* the offset range of a channel, by its scale and its probe
NextRange == SetScale \/ ProbeChange \/ ComputeChannelOffsetRange \/ OverwriteOffsetRange

SpecRange == InitFacade /\ [][NextRange]_vars

\* the transport's log of what a trigger and a caller transmit
NextLog == Write \/ Ask \/ Autoset \/ GetState \/ GetMode

SpecLog == InitTrigger /\ [][NextLog]_vars

\* the trigger through the facade's set_trigger
NextBatch == SetTrigger \/ GetTrigType \/ GetSource

SpecBatch == InitDispatch /\ [][NextBatch]_vars

Next ==
    \/ SetTrigger
    \/ NextLog
    \/ NextRange
    \/ NextTrigger \/ NextChain
    \/ HorizontalGet \/ HorizontalSet
    \/ NextFacade
    \/ NextWaveform \/ NextWidth \/ SetDataPoint

Spec == Init /\ [][Next]_vars

-----------------------------------------------------------------------------
(* Properties of the dispatcher, over SpecDispatch *)

\* the last call was a set that reached the validator: a supported model and
\* a property the object's table lists
Validated ==
    /\ call.op = "set"
    /\ model \in supported_models
    /\ call.name \in DOMAIN av[call.obj]

AcceptedOfCall == av[call.obj][call.name]

\* the string alternatives of a spec, the sentinel apart
Alternatives(accepted) ==
    {accepted[i].s : i \in {j \in DOMAIN accepted :
                            accepted[j].k = "str" /\ accepted[j].s # "any_number"}}

\* the spec holds one interval and no sentinel
OneInterval(accepted) ==
    /\ Cardinality({i \in DOMAIN accepted : accepted[i].k = "tuple"}) = 1
    /\ ~InList("any_number", accepted)

InsideInterval(accepted, v) ==
    FirstTuple(accepted).lo <= v.m /\ v.m <= FirstTuple(accepted).hi

AcceptedWith(text) == call.exc = "none" /\ call.sent = <<text>>

RejectedWith(e) == call.exc = e /\ call.sent = <<>>

\* the value of the last call fails validation: a string that is none of the
\* string alternatives, or a number outside the interval
FailsValidation ==
    \/ /\ call.arg.t = "str"
       /\ lower(call.arg.s) \notin Alternatives(AcceptedOfCall)
    \/ /\ IsNumber(call.arg)
       /\ OneInterval(AcceptedOfCall)
       /\ ~InsideInterval(AcceptedOfCall, call.arg)

\* C1: a set through the dispatcher whose value fails validation (a string
\* not in the enumeration, a number outside the interval) raises ValueError
\* and transmits no write.
C1_RejectedBeforeTransmission ==
    (Validated /\ FailsValidation) => RejectedWith("ValueError")

\* the case of C2: a non-zero number set on a property of one interval
C2_Case ==
    /\ Validated
    /\ IsNumber(call.arg) /\ call.arg.m # 0
    /\ OneInterval(AcceptedOfCall)

\* C2: on a property whose spec holds an interval (lo, hi) and no any_number,
\* a non-zero number v is accepted, with the one write "<path> v", exactly
\* when lo <= v <= hi, the bounds included; any other v raises ValueError and
\* nothing is written.
C2_InclusiveInterval ==
    C2_Case =>
        IF InsideInterval(AcceptedOfCall, call.arg)
        THEN AcceptedWith(call.path \o " " \o PyStr(call.arg))
        ELSE RejectedWith("ValueError")

\* the upper bound of ch1's position was set and written
C2_Witness ==
    /\ C2_Case
    /\ call.arg = IntV(8)
    /\ FirstTuple(AcceptedOfCall).hi = 8000
    /\ call.sent = <<"ch1:position 8">>

\* C3: a non-empty string is accepted exactly when its lower-cased form is one
\* of the string alternatives of the spec; any other string raises ValueError,
\* and none is accepted through the any_number sentinel or an interval.
C3_StringMatching ==
    (Validated /\ call.arg.t = "str" /\ call.arg.s # "") =>
        IF lower(call.arg.s) \in Alternatives(AcceptedOfCall)
        THEN AcceptedWith(call.path \o " " \o call.arg.s)
        ELSE RejectedWith("ValueError")

-----------------------------------------------------------------------------
(* Properties of a trigger, over SpecTrigger and SpecChain *)

\* force() ran and the instrument reported a state other than READY
ForcedNotReady ==
    /\ call.op = "force"
    /\ Len(call.got) = 1
    /\ EnumHas(TrigStrings, lower(call.got[1]))
    /\ EnumValue(TrigStrings, lower(call.got[1])) # "ready"

\* C4: in strict mode, force() called while the instrument reports a state
\* other than READY raises ScopeStateError and transmits no "trigger force".
C4_StrictForceRefused ==
    (ForcedNotReady /\ strict) =>
        /\ call.exc = "ScopeStateError"
        /\ call.sent = <<"trigger:state?">>

\* a strict trigger was forced while ARMED
C4_Witness ==
    /\ ForcedNotReady /\ strict
    /\ call.got = <<"ARMED">>
    /\ call.exc = "ScopeStateError"

\* C5: in non-strict mode, force() called while the instrument reports a
\* state other than READY returns normally: no exception, a diagnostic
\* printed, no command transmitted.
C5_NonStrictForceSkipped ==
    (ForcedNotReady /\ ~strict) =>
        /\ call.exc = "none"
        /\ call.printed
        /\ call.sent = <<"trigger:state?">>

\* the trigger type the instrument holds, as the setter last left it
TypeRegister == lower(dev[trig.cn \o ":type"])

\* a text of sent asks or writes a source or a level
TouchesSourceOrLevel(sent) ==
    \E i \in DOMAIN sent : Contains(sent[i], ":source") \/ Contains(sent[i], ":level")

\* C6: while the type last accepted by the trig_type setter is a value of the
\* table other than edge, reading or writing source or level raises
\* NotImplementedError and transmits no source or level query or write; with
\* the type back to edge they succeed.
C6_SourceAndLevelNeedEdge ==
    (/\ call.op \in {"source", "set_source", "level", "set_level"}
     /\ model \in supported_models
     /\ InList(TypeRegister, av[trig.tid]["trig_type"])) =>
        IF TypeRegister # "edge"
        THEN call.exc = "NotImplementedError" /\ ~TouchesSourceOrLevel(call.sent)
        ELSE call.op \in {"source", "level"} => call.exc = "none"

-----------------------------------------------------------------------------
(* Properties of a channel, over SpecChannel *)

\* C7: on a channel made with is_digital=True every read and every write of
\* position, offset, scale and coupling raises ScopeNotSupportedError,
\* whatever the value, before any ask or write reaches the transport.
C7_DigitalGuard ==
    (call.op \in {"digital_get", "digital_set"}) =>
        /\ call.exc = "ScopeNotSupportedError"
        /\ call.sent = <<>>

-----------------------------------------------------------------------------
(* Properties of a waveform transfer, over SpecWaveform *)

\* C8: get_data() and get_data_preamble() transmit the curve query and the
\* preamble query only after an initialize_data() that ran to completion, its
\* data:source, data:encdg and data:width writes accepted in that order;
\* otherwise they raise ScopeStateError and transmit nothing.
C8_InitializedBeforeFetch ==
    (call.op \in {"get_data", "get_data_preamble"}) =>
        IF init_done
        THEN call.exc # "ScopeStateError"
        ELSE call.exc = "ScopeStateError" /\ call.sent = <<>>

\* a fetch was refused after an initialisation that failed part-way, its
\* data:source write made and its data:encdg write not
C8_Witness ==
    /\ call.op = "get_data"
    /\ ~init_done
    /\ dev["data:source"] = "CH1" /\ dev["data:encdg"] # "fastest"
    /\ "data_encoding" \notin DOMAIN av["waveform"]
    /\ call.exc = "ScopeStateError" /\ call.sent = <<>>

\* the encoding the instrument reported to the last get_data()
ReportedEncoding == EnumValue(WFStrings, lower(call.got[1]))

\* get_data() returned, having read the encoding and the block
Fetched ==
    /\ call.op = "get_data"
    /\ call.exc = "none"
    /\ Len(call.got) = 1

\* C9: when header decoding applies, for every well-formed block
\* '#' N <N digits of the length L> <payload>, with or without terminator
\* bytes after it, get_data() returns exactly the L bytes of the payload,
\* whatever they are.
C9_PayloadReturned ==
    \A p \in Payloads, t \in Terminators :
        (/\ Fetched
         /\ Contains(ReportedEncoding, "binary")
         /\ call.block = Block(p, t)) => call.ret = BytesV(p)

\* C10: get_data() strips the header exactly when the encoding the instrument
\* reports is a binary variant or fastest; an ascii reply is returned as read.
C10_StripsForBinaryOrFastest ==
    (Fetched /\ Len(call.block) > 2) =>
        IF Contains(ReportedEncoding, "binary") \/ ReportedEncoding = "fastest"
        THEN call.ret = BytesV(SliceFrom(read_raw(call.block),
                                         2 + NatVal(CharAt(call.block, 2))))
        ELSE call.ret = BytesV(read_raw(call.block))

\* the length the header of the block of the last get_data() declares
DeclaredLength ==
    NatVal(SubSeq(call.block, 3, 2 + NatVal(CharAt(call.block, 2))))

\* the reply to the curve query of the last get_data() is shorter than its
\* header and declared length together
ShortRead ==
    Len(call.block) < 2 + NatVal(CharAt(call.block, 2)) + DeclaredLength

\* C11: when decoding applies and the raw reply is shorter than 2 + N + the
\* declared length, get_data() fails with an error; it never returns a
\* payload shorter than the declared length.
C11_ShortReadIsAnError ==
    (/\ call.op = "get_data"
     /\ Len(call.got) = 1
     /\ Contains(ReportedEncoding, "binary")
     /\ call.block \in Blocks
     /\ ShortRead) => call.exc # "none"

\* the instrument holds at `path` a token of the table entry `name` of the
\* trigger, as a set of that property left it
HoldsAccepted(path, name) ==
    /\ path \in DOMAIN dev
    /\ InList(dev[path], av[trig.tid][name])

\* C12: against a device that stores what is written and reports it back,
\* reading a property right after writing it with a token its table accepts
\* returns that token; stated for the trig_type and the source of a trigger,
\* over every token of the MDO3024 and MSO54 tables that was written.
C12_ReadBackWhatWasWritten ==
    /\ (call.op = "trig_type" /\ HoldsAccepted(trig.cn \o ":type", "trig_type")) =>
            (call.exc = "none" /\ call.ret = StrV(dev[trig.cn \o ":type"]))
    /\ (/\ call.op = "source"
        /\ dev[trig.cn \o ":type"] = "edge"
        /\ HoldsAccepted(trig.cn \o ":edge:source", "source")) =>
            (call.exc = "none" /\ call.ret = StrV(dev[trig.cn \o ":edge:source"]))

\* C13: a number is transmitted only if the spec of the property holds the
\* any_number sentinel or an interval that contains it; otherwise it is
\* rejected with an error and nothing is written.  So a number set on a pure
\* enumeration (mode, trig_type, coupling, data_encoding) is rejected.
C13_NumberNeedsSentinelOrInterval ==
    (/\ Validated
     /\ IsNumber(call.arg)
     /\ ~InList("any_number", AcceptedOfCall)
     /\ ~(HasTuple(AcceptedOfCall) /\ InsideInterval(AcceptedOfCall, call.arg))) =>
        (call.exc # "none" /\ call.sent = <<>>)

\* C14: when the value is None or the empty string and the name has a table
\* entry, the set transmits exactly one write, the command path alone, and no
\* write of the form "<path> <value>".
C14_BareCommand ==
    (Validated /\ call.arg \in {NoneV, StrV("")}) =>
        (call.exc = "none" /\ call.sent = <<call.path>>)

\* C15: when the instrument's model is not a supported model, every set
\* through the dispatcher raises NotImplementedError and transmits no write,
\* also when the name has no entry in the table (the model is tested first,
\* the table second).
C15_UnsupportedModelFirst ==
    (call.op = "set" /\ model \notin supported_models) =>
        RejectedWith("NotImplementedError")

\* C16: on a supported model, a set of a name that has no entry in the table
\* raises KeyError (not ValueError) and transmits no write, whatever the
\* value.
C16_UnknownProperty ==
    (/\ call.op = "set"
     /\ model \in supported_models
     /\ call.name \notin DOMAIN av[call.obj]) => RejectedWith("KeyError")

\* data_start, which the caller's waveform table does not list, was set to 0
C16_Witness ==
    /\ call.op = "set"
    /\ model = "DEBUG"
    /\ call.name = "data_start" /\ call.name \notin DOMAIN av[call.obj]
    /\ call.arg = IntV(0)
    /\ RejectedWith("KeyError")

\* the last call read or wrote the level with the type edge, and read the
\* source: the source is the third reply (after the two of the type)
LevelWithSource ==
    /\ call.op \in {"level", "set_level"}
    /\ Len(call.got) >= 3
    /\ lower(call.got[1]) \in {"edge", "edg"}

SourceOfCall == lower(call.got[3])

TouchesLevel(sent) == \E i \in DOMAIN sent : Contains(sent[i], ":level")

\* C17: with the type edge and a source whose text without its digits is no
\* prefix the accessor recognises for the connected model (line, rf), reading
\* level returns the 'cannot be ascertained' text and writing level completes
\* without raising; neither transmits a level query or a level write.
C17_LevelOfOtherSources ==
    /\ (/\ LevelWithSource /\ call.op = "level"
        /\ model \in DOMAIN level_get_sources
        /\ remove_digits(SourceOfCall) \notin level_get_sources[model]) =>
            (/\ call.exc = "none"
             /\ call.ret = StrV(NotAscertained)
             /\ ~TouchesLevel(call.sent))
    /\ (/\ LevelWithSource /\ call.op = "set_level"
        /\ model \in DOMAIN level_set_sources
        /\ remove_digits(SourceOfCall) \notin level_set_sources[model]) =>
            (call.exc = "none" /\ ~TouchesLevel(call.sent))

\* the level was read while the source was line
C17_Witness ==
    /\ LevelWithSource /\ call.op = "level"
    /\ SourceOfCall = "line"
    /\ call.ret = StrV(NotAscertained)

-----------------------------------------------------------------------------
(* Properties of the offset of a channel, over SpecFacade *)

\* the last call set the offset of an analog channel the facade holds, on a
\* supported model
OffsetSet(op) ==
    /\ call.op = op
    /\ call.name = "offset"
    /\ call.path = chan.cn \o ":offset"
    /\ ~chan.is_digital
    /\ facade # "custom"
    /\ model \in supported_models

\* a text of sent writes the offset of the channel
WritesOffset(sent) ==
    \E i \in DOMAIN sent : Contains(sent[i], chan.cn \o ":offset ")

\* C18: every offset write, by assigning Channel.offset or through
\* set_channel(offset=...), is validated against a range recomputed in that
\* same operation from the channel's current scale and probe resistance: an
\* operation that writes the offset has read both.
C18_OffsetRangeRecomputed ==
    ((OffsetSet("set") \/ OffsetSet("set_channel")) /\ WritesOffset(call.sent)) =>
        /\ \E i \in DOMAIN call.sent : call.sent[i] = chan.cn \o ":scale?"
        /\ \E i \in DOMAIN call.sent : call.sent[i] = chan.cn \o ":probe:resistance?"

\* C19: set_channel(channel, offset=v) on an existing analog channel computes
\* the offset range from the channel's scale and probe resistance, stores it
\* as the channel's offset entry, and writes exactly "<channel>:offset v" when
\* v lies in the range; when it does not, the call raises ValueError and
\* writes no offset.
C19_SetChannelOffset ==
    (OffsetSet("set_channel") /\ call.arg.m # 0) =>
        /\ HasTuple(av["channel"]["offset"])
        /\ IF InsideInterval(av["channel"]["offset"], call.arg)
           THEN /\ call.exc = "none"
                /\ WritesOffset(call.sent)
                /\ call.sent[Len(call.sent)] = call.path \o " " \o PyStr(call.arg)
           ELSE call.exc = "ValueError" /\ ~WritesOffset(call.sent)

-----------------------------------------------------------------------------
(* Properties of the width of a transfer, over SpecWidth *)

\* the widths accepted for a source, as the instrument reports it
WidthsAccepted(source) ==
    IF source = "digital" THEN {"4", "8"}
    ELSE IF source \in {"rf_normal", "rf_average", "rf_maxhold", "rf_minhold"}
    THEN {"4"}
    ELSE {"1", "2"}

WidthSet == call.op = "set_data_width" /\ model \in supported_models

\* C20: each data_width write queries data_source in the same call and
\* overwrites the table's data_width entry before validating: the accepted
\* widths are {4, 8} when the source reads digital, {4} when it reads
\* rf_normal, rf_average, rf_maxhold or rf_minhold, and {1, 2} otherwise,
\* whatever entry an earlier write left.
C20_WidthFollowsSource ==
    WidthSet =>
        /\ Len(call.got) = 1 /\ call.sent[1] = "data:source?"
        /\ {w.s : w \in RangeOf(av["waveform"]["data_width"])} = WidthsAccepted(call.got[1])
        /\ IF PyStr(call.arg) \in WidthsAccepted(call.got[1])
           THEN /\ call.exc = "none"
                /\ call.sent = <<"data:source?", "data:width " \o PyStr(call.arg)>>
           ELSE call.exc = "ValueError" /\ call.sent = <<"data:source?">>

\* width 1 was rejected while the source, set to rf_normal, read rf_normal
C20_Witness ==
    /\ WidthSet
    /\ call.got = <<"rf_normal">>
    /\ call.arg = IntV(1)
    /\ call.exc = "ValueError"
    /\ av["waveform"]["data_width"] = Toks(<<"4">>)

\* the digital sources a facade's data_source table lists
DigitalSources(f) ==
    IF f = "MDO3024" THEN RangeOf(Numbered("d", 0, num_digi_chans))
    ELSE IF f = "MSO54"
    THEN RangeOf(ChannelDigitals)
         \cup {"ch" \o NatStr(i) \o "_dall" : i \in 1..num_anlg_chans}
         \cup {"digitalall"}
    ELSE {}

\* a data_width write made while the source register holds `source`
WidthSetOn(source) ==
    /\ WidthSet
    /\ Len(call.got) = 1
    /\ call.got[1] = source

\* C21: once a digital source of the model's data_source table (d0..d15 on
\* the MDO3024; ch<j>_d<i>, ch<i>_dall and digitalall on the MSO54) has been
\* set through the data_source setter, a data_width write accepts 4 and 8
\* and rejects every other width.
C21_DigitalSourceWidths ==
    \A source \in DigitalSources(facade) :
        WidthSetOn(source) =>
            IF PyStr(call.arg) \in {"4", "8"}
            THEN /\ call.exc = "none"
                 /\ call.sent = <<"data:source?", "data:width " \o PyStr(call.arg)>>
            ELSE call.exc = "ValueError" /\ call.sent = <<"data:source?">>

-----------------------------------------------------------------------------
(* Properties of compute_channel_offset_range, over SpecRange *)

\* compute_channel_offset_range was called with the name of an analog
\* channel while the channel's scale register held `scale` and its probe
\* resistance register `probe`
RangeComputed(scale, probe) ==
    /\ call.op = "compute_channel_offset_range"
    /\ call.arg = StrV(chan.name)
    /\ ~chan.is_digital
    /\ Reply(dev, chan.cn \o ":scale") = scale
    /\ Reply(dev, chan.cn \o ":probe:resistance") = probe

\* C22: for a channel whose scale is 2 V/div and whose probe resistance is
\* 50 ohm, compute_channel_offset_range returns the range (-5, 5).
C22_OverrideRange ==
    RangeComputed("2", "50") =>
        call.exc = "none" /\ call.ret = Rng(-5000, 5000)

\* the range paired with the bucket a scale falls in
BucketRange(scale) ==
    CASE scale = "0.02" -> Rng(-1000, 1000)
      [] scale = "0.3" -> Rng(-10000, 10000)
      [] scale = "2" -> Rng(-100000, 100000)
      [] scale = "8" -> Rng(-50000, 50000)

\* C26: with a 10 Mohm probe, compute_channel_offset_range returns the
\* range paired with the bucket the channel's scale falls in: (-1, 1) for
\* 0.02 V/div, (-10, 10) for 0.3, (-100, 100) for 2 and (-50, 50) for 8.
C26_BucketRange ==
    \A scale \in {"0.02", "0.3", "2", "8"} :
        RangeComputed(scale, "10000000.0") =>
            call.exc = "none" /\ call.ret = BucketRange(scale)

-----------------------------------------------------------------------------
(* Properties of the tables of the channels, over SpecRange *)

\* C23: each channel owns its accepted-value table: overwriting an entry of
\* one channel's table leaves the table of every other channel of the
\* facade, analog or digital, unchanged.
C23_TablesOwned ==
    [][call'.op = "overwrite" =>
          \A other \in Channels(facade) \ {chan} :
              av'[table_of(other)] = av[table_of(other)]]_vars

-----------------------------------------------------------------------------
(* Properties of the transport's log, over SpecLog *)

\* each text of `sent`, in order, followed by one newline
RECURSIVE Lines(_)
Lines(sent) == IF sent = <<>> THEN "" ELSE Head(sent) \o "\n" \o Lines(Tail(sent))

\* C24: what a call adds to log_str is every text it transmitted (a query
\* with the "?" that was sent), in order, each followed by exactly one
\* newline; so log_str is that concatenation over all the calls made.
C24_LogOneLinePerText ==
    \A before \in {"", "HEADER 0\n"} :
        LogAll(before, call.sent) = before \o Lines(call.sent)

-----------------------------------------------------------------------------
(* Further properties of the dispatcher, over SpecDispatch *)

\* the intervals of a spec
Intervals(accepted) == {accepted[i] : i \in {j \in DOMAIN accepted : accepted[j].k = "tuple"}}

\* C25: when a property's spec holds several intervals and no any_number, a
\* non-zero number is accepted, with the one write "<path> v", if it lies
\* within any one of them, bounds included, and raises ValueError, with no
\* write, only if it lies in none.
C25_AnyOfTheIntervals ==
    (/\ Validated
     /\ IsNumber(call.arg) /\ call.arg.m # 0
     /\ ~InList("any_number", AcceptedOfCall)
     /\ Cardinality(Intervals(AcceptedOfCall)) > 1) =>
        IF \E r \in Intervals(AcceptedOfCall) : r.lo <= call.arg.m /\ call.arg.m <= r.hi
        THEN AcceptedWith(call.path \o " " \o PyStr(call.arg))
        ELSE RejectedWith("ValueError")

\* C27: a number zero (0 or 0.0) is validated like any other number: on a
\* property of one interval it is rejected with ValueError and no write
\* when the interval excludes 0 (data_start, data_stop), and transmits
\* exactly the one write "<path> 0" when the interval contains 0
\* (horizontal position).
C27_ZeroIsValidated ==
    (/\ Validated
     /\ IsNumber(call.arg) /\ call.arg.m = 0
     /\ OneInterval(AcceptedOfCall)) =>
        IF InsideInterval(AcceptedOfCall, call.arg)
        THEN AcceptedWith(call.path \o " " \o PyStr(call.arg))
        ELSE RejectedWith("ValueError")

-----------------------------------------------------------------------------
(* Further properties of a trigger, over SpecTrigger *)

\* the last call was force() and the state it read was a spelling of READY
ForcedReady ==
    /\ call.op = "force"
    /\ Len(call.got) = 1
    /\ lower(call.got[1]) \in {"ready", "rea"}

\* C28: force() transmits "trigger force" only after a trigger:state query
\* of the same call whose reply, lower-cased, is "ready" or "rea"; in that
\* case it transmits exactly the one write "trigger force", for either
\* trigger prefix and either value of strict.
C28_ForceOnlyWhenReady ==
    call.op = "force" =>
        /\ (\E i \in DOMAIN call.sent : call.sent[i] = "trigger force") => ForcedReady
        /\ ForcedReady =>
              /\ call.exc = "none"
              /\ call.sent = <<"trigger:state?", "trigger force">>

\* a non-strict trigger:b was forced while the instrument reported REA
C28_Witness ==
    /\ ForcedReady
    /\ call.got = <<"REA">>
    /\ trig.cn = "trigger:b" /\ ~strict
    /\ call.sent = <<"trigger:state?", "trigger force">>

-----------------------------------------------------------------------------
(* Properties of set_trigger, over SpecBatch *)

BatchProps == <<"mode", "trig_type", "source", "level">>

\* the path a field of set_trigger is written to, up to its last colon
BatchPath(prop) ==
    CASE prop = "mode" -> "trigger:a:mode"
      [] prop = "trig_type" -> "trigger:a:type"
      [] prop = "source" -> "trigger:a:edge:source"
      [] prop = "level" -> "trigger:a:level:"

\* where the last call wrote the field prop
WritesOf(prop) ==
    {i \in DOMAIN call.sent :
        Contains(call.sent[i], BatchPath(prop)) /\ ~Contains(call.sent[i], "?")}

\* the trigger type and source the instrument holds
BatchType == EnumValue(TrigStrings, lower(dev["trigger:a:type"]))
BatchSource == lower(dev["trigger:a:edge:source"])

\* the field prop is given: not None; or, on the reading of the code, not
\* None and not empty for mode, trig_type and source
Given(prop, nonEmpty) ==
    IF prop = "level" \/ ~nonEmpty THEN call.arg[prop] # NoneV
    ELSE ~Falsy(call.arg[prop])

\* the property setter of prop accepts the value given, the fields before
\* it having been applied
Accepts(prop) ==
    CASE prop \in {"mode", "trig_type"} ->
            Falsy(call.arg[prop]) \/ InList(lower(call.arg[prop].s), av["trigger"][prop])
      [] prop = "source" ->
            /\ BatchType = "edge"
            /\ Falsy(call.arg[prop]) \/ InList(lower(call.arg[prop].s), av["trigger"][prop])
      [] prop = "level" -> BatchType = "edge"

\* what is in effect after the field prop was applied
InEffect(prop) ==
    CASE prop = "mode" -> dev["trigger:a:mode"] = call.arg[prop].s
      [] prop = "trig_type" -> dev["trigger:a:type"] = call.arg[prop].s
      [] prop = "source" -> dev["trigger:a:edge:source"] = call.arg[prop].s
      [] prop = "level" ->
            dev["trigger:a:level:" \o BatchSource] = PyStr(call.arg[prop])

\* set_trigger applies the given fields in the order mode, trig_type,
\* source, level, each through its setter: a field not given is not written;
\* a given field whose predecessors were accepted is written and in effect
\* when its setter accepts it, whatever becomes of the fields after it, and
\* ends the call with an exception when it does not; the call succeeds when
\* every given field is accepted
BatchInOrder(nonEmpty) ==
    call.op = "set_trigger" =>
        /\ \A p, q \in DOMAIN BatchProps :
              p < q => \A i \in WritesOf(BatchProps[p]), j \in WritesOf(BatchProps[q]) : i < j
        /\ \A p \in DOMAIN BatchProps :
              LET before == {BatchProps[q] : q \in 1..(p - 1)}
                  prop == BatchProps[p]
              IN  IF ~Given(prop, nonEmpty) THEN WritesOf(prop) = {}
                  ELSE (\A q \in before : Given(q, nonEmpty) => Accepts(q)) =>
                          IF Accepts(prop)
                          THEN WritesOf(prop) # {} /\ InEffect(prop)
                          ELSE call.exc # "none" /\ WritesOf(prop) = {}
        /\ (\A p \in DOMAIN BatchProps :
                Given(BatchProps[p], nonEmpty) => Accepts(BatchProps[p])) => call.exc = "none"

\* C29 (as stated): set_trigger applies each field it is given (each
\* argument that is not None), in the order mode, trig_type, source, level,
\* through its property setter, and the batch is not atomic.
C29_EveryGivenField == BatchInOrder(FALSE)

\* C29 (amended): set_trigger applies, in the order mode, trig_type, source,
\* level, each field that is given and, for mode, trig_type and source, not
\* empty, through its property setter; set_trigger(trig_type = "edge",
\* source = s) with an accepted s succeeds whatever the type was before,
\* and the writes of the fields before a rejected one remain in effect.
C29_EveryNonEmptyField == BatchInOrder(TRUE)

\* the type logic was written and is in effect although the source given
\* after it was refused
C29_Witness ==
    /\ call.op = "set_trigger"
    /\ call.arg.trig_type = StrV("logic") /\ call.arg.source = StrV("ch2")
    /\ call.exc = "NotImplementedError"
    /\ \E i \in DOMAIN call.sent : call.sent[i] = "trigger:a:type logic"
    /\ dev["trigger:a:type"] = "logic"

-----------------------------------------------------------------------------
(* Further properties of the level of a trigger, over SpecChain *)

\* the trigger's type is edge and its source, as the instrument holds it, is
\* one of the trigger's source table, on a supported model
SourceOfTable ==
    /\ model \in supported_models
    /\ TypeRegister \in {"edge", "edg"}
    /\ InList(lower(dev[trig.cn \o ":edge:source"]), av[trig.tid]["source"])

\* C30: for every supported model and every source of the trigger's source
\* table, the level getter and the level setter agree on whether the
\* source's prefix is recognised: a level read issues the level query
\* exactly when a level write of a number transmits the level write.
C30_LevelAccessorsAgree ==
    SourceOfTable =>
        (TouchesLevel(Trigger_level(Here, model, trig.cn).sent)
            <=> TouchesLevel(Trigger_set_level(Here, model, trig.tid, trig.cn,
                                               FloatV(500)).sent))

====
